---- MODULE Spec2Model ----
(***************************************************************************)
(* A model of hub_utils/utilities.py (class Utilities): the registry       *)
(* writers, the bulk CSV driver, the external-tool test cycle, the merge   *)
(* of definitions, the manual settings path, the type classification and   *)
(* add from its first prompt to its last writer.                           *)
(*                                                                         *)
(* Each component is a small state machine over its own variables.  One    *)
(* specification per component runs that component and leaves the others   *)
(* at rest.                                                                *)
(***************************************************************************)
EXTENDS Integers, Sequences, FiniteSets, TLC

VARIABLES
    auto_accept,            \* Utilities.auto_accept
    \* _write_definition
    files,                  \* {hub_root}/_data/meltano/{type}/{name}/{variant}.yml
    wd_call,                \* the last _write_definition call and what it did
    \* _handle_default_variant
    defaults,               \* {hub_root}/_data/default_variants.yml
    hdv_call,               \* the last _handle_default_variant call
    \* _handle_maintainer
    maintainers,            \* {hub_root}/_data/maintainers.yml, in file order
    hm_first,               \* per key, the call that introduced it
    hm_call,                \* the last _handle_maintainer call
    \* add_bulk
    csv_file,               \* the rows of the file at csv_path
    csv_list,               \* add_bulk's csv_list
    index,                  \* add_bulk's loop index
    repo_urls_to_delete,    \* add_bulk's repo_urls_to_delete
    edit_file,              \* the rows of the file at edit_path
    bulk_pc,                \* where add_bulk is
    bulk_visited,           \* the URLs of the data rows visited so far
    \* _test, _test_airbyte and the add around them
    t_args,                 \* the arguments of the test cycle
    t_pc,                   \* where the test cycle is
    t_calls,                \* the external-tool calls made so far
    t_failed,               \* the external-tool steps that failed
    t_exc,                  \* an exception is in flight
    t_return,               \* the pending return value of the cycle
    add_pc,                 \* where the enclosing add is
    \* _merge_definitions
    existing_def,           \* the definition read from disk
    new_def,                \* the merged definition
    merge_args,             \* the values handed to the merge
    \* _build_settings
    setting_list,           \* the argument of _build_settings
    bs_index,               \* the next setting to ask about
    settings,               \* _build_settings' settings
    settings_group_validation, \* _build_settings' settings_group_validation
    bs_answers,             \* the operator's answers, one record per setting
    bs_return,              \* what _build_settings returned
    \* _compile_settings
    cs_default,             \* the list object that is the default of `seed`
    cs_settings,            \* _compile_settings' settings
    cs_aliased,             \* settings is the default list object
    cs_pc,                  \* where _compile_settings is
    cs_submitted,           \* the values the operator submitted in this call
    cs_return,              \* what _compile_settings returned
    \* get_plugin_type
    plugin_name,            \* the argument of get_plugin_type
    type_result,            \* what get_plugin_type did
    \* add
    logos,                  \* the files under {hub_root}/static/assets/logos
    add_call                \* the last add call and what it did

wdVars == <<files, wd_call>>
dvVars == <<defaults, hdv_call>>
hmVars == <<maintainers, hm_first, hm_call>>
bulkVars == <<csv_file, csv_list, index, repo_urls_to_delete, edit_file, bulk_pc,
              bulk_visited>>
testVars == <<t_args, t_pc, t_calls, t_failed, t_exc, t_return, add_pc>>
mergeVars == <<existing_def, new_def, merge_args>>
bsVars == <<setting_list, bs_index, settings, settings_group_validation,
            bs_answers, bs_return>>
csVars == <<cs_default, cs_settings, cs_aliased, cs_pc, cs_submitted, cs_return>>
typeVars == <<plugin_name, type_result>>
addVars == <<logos, add_call>>

vars == <<auto_accept, wdVars, dvVars, hmVars, bulkVars, testVars, mergeVars,
          bsVars, csVars, typeVars, addVars>>

(***************************************************************************)
(* Values shared by the components.                                        *)
(***************************************************************************)
NoFile == [absent |-> TRUE]
None == "None"
NoCall == [op |-> "none"]

PluginTypes == {"extractors", "loaders"}
PluginNames == {"tap-a"}
Variants == {"meltanolabs", "singer-io"}
Descriptions == {"d1", "d2"}

\* A prompt layer without the auto-accept test: it always takes the answer.
PromptAsks(answer, default_val) == answer

\* _prompt: the default in auto-accept mode, the operator's answer otherwise.
Prompt(answer, default_val) == IF auto_accept THEN default_val ELSE answer

(***************************************************************************)
(* _write_definition                                                       *)
(***************************************************************************)
\* The part of a plugin definition the writer reads (name, variant) and one
\* field standing for the rest of its content.
Definitions == [name : PluginNames, variant : Variants, description : Descriptions]

DefKeys == PluginTypes \X PluginNames \X Variants

\* os.path.join(hub_root, '_data', 'meltano', plugin_type, name) / f'{variant}.yml'
DefPath(definition, plugin_type) ==
    <<plugin_type, definition.name, definition.variant>>

WdFrame ==
    UNCHANGED <<auto_accept, dvVars, hmVars, bulkVars, testVars, mergeVars,
                bsVars, csVars, typeVars, addVars>>

WdRecord(definition, plugin_type, existed, prompted, overwrite) ==
    [op |-> "_write_definition", definition |-> definition,
     path |-> DefPath(definition, plugin_type), existed |-> existed,
     prompted |-> prompted, overwrite |-> overwrite,
     returned |-> DefPath(definition, plugin_type)]

\* A writer that forgets the else branch: it writes whatever the answer was.
WriteDefinitionAlways(definition, plugin_type, answer) ==
    LET yaml_path == DefPath(definition, plugin_type)
        exists == files[yaml_path] # NoFile
        overwrite == IF exists THEN Prompt(answer, FALSE) ELSE FALSE
    IN  /\ files' = [files EXCEPT ![yaml_path] = definition]
        /\ wd_call' = WdRecord(definition, plugin_type, exists,
                               exists /\ ~auto_accept, overwrite)
        /\ WdFrame

WriteDefinition(definition, plugin_type, answer) ==
    LET yaml_path == DefPath(definition, plugin_type)
    IN  IF files[yaml_path] = NoFile
        THEN /\ files' = [files EXCEPT ![yaml_path] = definition]
             /\ wd_call' = WdRecord(definition, plugin_type, FALSE, FALSE, FALSE)
             /\ WdFrame
        ELSE LET overwrite == Prompt(answer, FALSE)
             IN  /\ files' = IF overwrite
                             THEN [files EXCEPT ![yaml_path] = definition]
                             ELSE files
                 /\ wd_call' = WdRecord(definition, plugin_type, TRUE,
                                        ~auto_accept, overwrite)
                 /\ WdFrame

\* The hub tree before the run: any of the files may already be there.
WdInit ==
    /\ files \in [DefKeys -> Definitions \cup {NoFile}]
    /\ \A k \in DefKeys :
          files[k] # NoFile => files[k].name = k[2] /\ files[k].variant = k[3]
    /\ wd_call = NoCall

WdIdle ==
    /\ files = [k \in DefKeys |-> NoFile]
    /\ wd_call = NoCall

WdNext ==
    \E definition \in Definitions, plugin_type \in PluginTypes, answer \in BOOLEAN :
        WriteDefinition(definition, plugin_type, answer)

(***************************************************************************)
(* _update_variant_file, _handle_default_variant                           *)
(***************************************************************************)
DvNames == {"tap-a", "target-b"}

DvFrame ==
    UNCHANGED <<auto_accept, wdVars, hmVars, bulkVars, testVars, mergeVars,
                bsVars, csVars, typeVars, addVars>>

\* plugin_type_defaults[plugin_name] = plugin_variant ;
\* defaults[plugin_type] = plugin_type_defaults ; the whole file is rewritten.
UpdateVariantFile(plugin_type_defaults, name, variant, defs, plugin_type) ==
    [defs EXCEPT ![plugin_type] =
        [n \in (DOMAIN plugin_type_defaults) \cup {name} |->
            IF n = name THEN variant ELSE plugin_type_defaults[n]]]

HdvRecord(name, variant, plugin_type, prompted, overwrite, returned) ==
    [op |-> "_handle_default_variant", name |-> name, variant |-> variant,
     type |-> plugin_type, prompted |-> prompted, overwrite |-> overwrite,
     returned |-> returned]

\* The value a Python `if` takes for true.
Truthy(v) == v = "True"

\* A handler that updates the registry without reading the answer.
HandleDefaultVariantNoAsk(name, variant, plugin_type, answer) ==
    LET plugin_type_defaults == defaults[plugin_type]
        exists == name \in DOMAIN plugin_type_defaults
        overwrite == IF exists THEN Prompt(answer, FALSE) ELSE FALSE
    IN  /\ defaults' = UpdateVariantFile(plugin_type_defaults, name, variant,
                                         defaults, plugin_type)
        /\ hdv_call' = HdvRecord(name, variant, plugin_type,
                                 exists /\ ~auto_accept, overwrite,
                                 IF exists THEN "True" ELSE None)
        /\ DvFrame

HandleDefaultVariant(name, variant, plugin_type, answer) ==
    LET plugin_type_defaults == defaults[plugin_type]
    IN  IF name \notin DOMAIN plugin_type_defaults
        THEN /\ defaults' = UpdateVariantFile(plugin_type_defaults, name, variant,
                                              defaults, plugin_type)
             /\ hdv_call' = HdvRecord(name, variant, plugin_type, FALSE, FALSE, None)
             /\ DvFrame
        ELSE LET overwrite == Prompt(answer, FALSE)
             IN  /\ defaults' =
                        IF overwrite
                        THEN UpdateVariantFile(plugin_type_defaults, name, variant,
                                               defaults, plugin_type)
                        ELSE defaults
                 /\ hdv_call' = HdvRecord(name, variant, plugin_type,
                                          ~auto_accept, overwrite, "True")
                 /\ DvFrame

\* One mapping from names to variants, for each subset of the names.
VariantMaps == UNION {[D -> Variants] : D \in SUBSET DvNames}

DvInit ==
    /\ defaults \in [PluginTypes -> VariantMaps]
    /\ hdv_call = NoCall

DvIdle ==
    /\ defaults = [t \in PluginTypes |-> <<>>]
    /\ hdv_call = NoCall

DvNext ==
    \E name \in DvNames, variant \in Variants, plugin_type \in PluginTypes,
       answer \in BOOLEAN :
        HandleDefaultVariant(name, variant, plugin_type, answer)

(***************************************************************************)
(* _handle_maintainer                                                      *)
(***************************************************************************)
MaxSegments == 2

HmFrame ==
    UNCHANGED <<auto_accept, wdVars, dvVars, bulkVars, testVars, mergeVars,
                bsVars, csVars, typeVars, addVars>>

\* The maintainer keys, in the order Python's string comparison gives them.
KeyOrder == <<"airbyte", "meltanolabs", "singer-io">>
MaintainerKeys == {KeyOrder[i] : i \in 1..Len(KeyOrder)}
KeyRank(k) == CHOOSE i \in 1..Len(KeyOrder) : KeyOrder[i] = k
KeyLess(a, b) == KeyRank(a) < KeyRank(b)

\* A URL is held as repo_url.split("/"): its segments, at least one.
Segments == {"org", "tap-a"}
RepoUrls == UNION {[1..n -> Segments] : n \in 1..MaxSegments}

\* "/".join(parts), again as segments: the join of no parts is the empty
\* string, whose split is one empty segment.
Join(parts) == IF parts = <<>> THEN <<"">> ELSE parts

\* "/".join(repo_url.split("/")[:-1])
MaintainerUrl(repo_url) == Join(SubSeq(repo_url, 1, Len(repo_url) - 1))

Keys(registry) == {registry[i].key : i \in 1..Len(registry)}

\* dict(OrderedDict(sorted(updated_maintainers.items())))
Sorted(registry) == SortSeq(registry, LAMBDA a, b : KeyLess(a.key, b.key))

NewMaintainer(variant, repo_url) ==
    [key |-> variant, label |-> variant, url |-> MaintainerUrl(repo_url),
     name |-> variant]

\* The call, whether its key was present, and whether the record derived from
\* this call differs from the one the registry held for the key.
HmRecord(variant, repo_url, registry) ==
    [op |-> "_handle_maintainer", variant |-> variant,
     present |-> variant \in Keys(registry),
     differs |-> \E i \in 1..Len(registry) :
                    /\ registry[i].key = variant
                    /\ registry[i] # NewMaintainer(variant, repo_url)]

\* A handler without the membership test: the last writer wins.
HandleMaintainerLastWins(variant, repo_url) ==
    LET updated_maintainers == maintainers
        others == SelectSeq(updated_maintainers, LAMBDA r : r.key # variant)
    IN  /\ maintainers' = Sorted(Append(others, NewMaintainer(variant, repo_url)))
        /\ hm_first' = IF hm_first[variant].set THEN hm_first
                       ELSE [hm_first EXCEPT ![variant] =
                                [set |-> TRUE, repo_url |-> repo_url]]
        /\ hm_call' = HmRecord(variant, repo_url, maintainers)
        /\ HmFrame

HandleMaintainer(variant, repo_url) ==
    LET updated_maintainers == maintainers
    IN  IF variant \notin Keys(updated_maintainers)
        THEN /\ maintainers' =
                    Sorted(Append(updated_maintainers,
                                  NewMaintainer(variant, repo_url)))
             /\ hm_first' = [hm_first EXCEPT ![variant] =
                                [set |-> TRUE, repo_url |-> repo_url]]
             /\ hm_call' = HmRecord(variant, repo_url, maintainers)
             /\ HmFrame
        ELSE /\ UNCHANGED <<maintainers, hm_first>>
             /\ hm_call' = HmRecord(variant, repo_url, maintainers)
             /\ HmFrame

\* A maintainer written by hand before the run.
OldMaintainer ==
    [key |-> "meltanolabs", label |-> "Meltano", url |-> <<"meltano.com">>,
     name |-> "meltano"]

HmInit ==
    /\ maintainers \in {<<>>, <<OldMaintainer>>}
    /\ hm_first = [k \in MaintainerKeys |-> [set |-> FALSE]]
    /\ hm_call = NoCall

HmIdle ==
    /\ maintainers = <<>>
    /\ hm_first = [k \in MaintainerKeys |-> [set |-> FALSE]]
    /\ hm_call = NoCall

HmNext ==
    \E variant \in MaintainerKeys, repo_url \in RepoUrls :
        HandleMaintainer(variant, repo_url)

(***************************************************************************)
(* delete_rows, add_bulk                                                   *)
(***************************************************************************)
MaxRows == 2

BulkFrame ==
    UNCHANGED <<auto_accept, wdVars, dvVars, hmVars, testVars, mergeVars,
                bsVars, csVars, typeVars, addVars>>

\* A CSV row: column 0 (the repository URL) and column 5 (the JSON seed).
BulkUrls == {"org/tap-a", "org/tap-b"}
Seeds == {"{}", "{"}
DataRows == [url : BulkUrls, seed : Seeds]
HeaderRows == [url : {"repo_url", "org/tap-a"}, seed : {"definition"}]
CsvFiles ==
    {<<>>} \cup
    UNION {{<<h>> \o rows : h \in HeaderRows, rows \in [1..n -> DataRows]} :
             n \in 0..MaxRows}

\* json.loads(row[5]) returns for a JSON text and raises for any other.
JsonLoadsOk(text) == text = "{}"

Range(s) == {s[i] : i \in 1..Len(s)}

\* delete_rows: the rows of csv_path, in order, but those whose column 0 is
\* among repo_urls_to_delete; the result is the new content of edit_path.
DeleteRows(urls_to_delete, rows) ==
    SelectSeq(rows, LAMBDA row : row.url \notin Range(urls_to_delete))

\* open(edit_path, 'w') and the rows written: the file exists and holds them.
Written(rows) == [exists |-> TRUE, rows |-> rows]
NoEditFile == [exists |-> FALSE, rows |-> <<>>]

\* csv_list = [row for row in csv.reader(inp)]
BulkRead ==
    /\ bulk_pc = "start"
    /\ csv_list' = csv_file
    /\ index' = 0
    /\ repo_urls_to_delete' = <<>>
    /\ bulk_pc' = IF csv_file = <<>> THEN "done" ELSE "loop"
    /\ UNCHANGED <<csv_file, edit_file, bulk_visited>>
    /\ BulkFrame

\* if index == 0: continue
BulkHeader ==
    /\ bulk_pc = "loop"
    /\ index = 0
    /\ index' = 1
    /\ bulk_pc' = IF Len(csv_list) = 1 THEN "done" ELSE "loop"
    /\ UNCHANGED <<csv_file, csv_list, repo_urls_to_delete, edit_file, bulk_visited>>
    /\ BulkFrame

BulkRaise ==
    /\ bulk_pc' = "raised"
    /\ UNCHANGED <<csv_file, csv_list, index, repo_urls_to_delete, edit_file,
                   bulk_visited>>
    /\ BulkFrame

BulkQueue(row, do_add) ==
    /\ repo_urls_to_delete' = Append(repo_urls_to_delete, row.url)
    /\ edit_file' = Written(DeleteRows(repo_urls_to_delete', csv_file))
    /\ bulk_visited' = Append(bulk_visited, [url |-> row.url, do_add |-> do_add])
    /\ index' = index + 1
    /\ bulk_pc' = IF index + 1 = Len(csv_list) THEN "done" ELSE "loop"
    /\ UNCHANGED <<csv_file, csv_list>>
    /\ BulkFrame

\* A driver that queues a row only when the operator confirmed it.
BulkRowOnlyConfirmed(answer, add_ok) ==
    /\ bulk_pc = "loop"
    /\ index >= 1
    /\ LET row == csv_list[index + 1]
           do_add == Prompt(answer, TRUE)
       IN  IF ~JsonLoadsOk(row.seed) \/ (do_add /\ ~add_ok)
           THEN BulkRaise
           ELSE IF do_add
                THEN BulkQueue(row, do_add)
                ELSE /\ bulk_visited' =
                            Append(bulk_visited, [url |-> row.url, do_add |-> do_add])
                     /\ edit_file' = Written(DeleteRows(repo_urls_to_delete, csv_file))
                     /\ index' = index + 1
                     /\ bulk_pc' = IF index + 1 = Len(csv_list) THEN "done" ELSE "loop"
                     /\ UNCHANGED <<csv_file, csv_list, repo_urls_to_delete>>
                     /\ BulkFrame

\* One data row: the seed is parsed, the operator is asked, add runs when
\* confirmed (and may raise), then the URL is queued and the edit file
\* rewritten.  An exception leaves add_bulk.
BulkRow(answer, add_ok) ==
    /\ bulk_pc = "loop"
    /\ index >= 1
    /\ LET row == csv_list[index + 1]
           do_add == Prompt(answer, TRUE)
       IN  IF ~JsonLoadsOk(row.seed)
           THEN BulkRaise
           ELSE IF do_add /\ ~add_ok
                THEN BulkRaise
                ELSE BulkQueue(row, do_add)

\* The edit file of an earlier run may still be there.
StaleEdit == <<[url |-> "org/tap-old", seed |-> "{}"]>>

BulkInit ==
    /\ csv_file \in CsvFiles
    /\ csv_list = <<>>
    /\ index = 0
    /\ repo_urls_to_delete = <<>>
    /\ edit_file \in {NoEditFile, Written(StaleEdit)}
    /\ bulk_pc = "start"
    /\ bulk_visited = <<>>

BulkIdle ==
    /\ csv_file = <<>> /\ csv_list = <<>> /\ index = 0
    /\ repo_urls_to_delete = <<>> /\ edit_file = NoEditFile /\ bulk_pc = "idle"
    /\ bulk_visited = <<>>

BulkNext ==
    \/ BulkRead
    \/ BulkHeader
    \/ \E answer \in BOOLEAN, add_ok \in BOOLEAN : BulkRow(answer, add_ok)

(***************************************************************************)
(* _install_test, _test, _test_airbyte and the add or add_airbyte around   *)
(* them.  Every call of the external tool (MeltanoUtil, a subprocess)      *)
(* either returns or raises.                                               *)
(***************************************************************************)
TestFrame ==
    UNCHANGED <<auto_accept, wdVars, dvVars, hmVars, bulkVars, mergeVars,
                bsVars, csVars, typeVars, addVars>>

TestNames == {"tap-a", "target-b"}

\* What the operator may type for "Provide --about output": a JSON document,
\* a JSON value Python takes for false, a text that is no JSON.
AboutTexts == {"{\"settings\": []}", "{}", "oops"}

\* json.loads of the operator's text; in auto-accept mode the prompt returns
\* None, which json.loads rejects.
JsonLoads(text) ==
    CASE text = "{\"settings\": []}" -> [ok |-> TRUE, value |-> "about"]
      [] text = "{}" -> [ok |-> TRUE, value |-> "empty"]
      [] OTHER -> [ok |-> FALSE, value |-> None]

\* The value of `if sdk_about_dict:`.
AboutTruthy(v) == v = "about"

Call(op) == [op |-> op, name |-> t_args.plugin_name, type |-> t_args.plugin_type]

\* A step inside the try block that neither calls the tool nor raises.
TestGoto(pc) ==
    /\ t_pc' = pc
    /\ UNCHANGED <<t_args, t_calls, t_failed, t_exc, t_return, add_pc>>
    /\ TestFrame

\* A cycle whose remove sits at the end of the try block: an exception is
\* printed and the cycle is left.
TestRaiseNoCleanup(calls, step) ==
    /\ t_calls' = calls
    /\ t_failed' = t_failed \cup {step}
    /\ t_return' = None
    /\ t_pc' = "done"
    /\ UNCHANGED <<t_args, t_exc, add_pc>>
    /\ TestFrame

\* An exception inside the try block: `except Exception` prints it, no value
\* is returned, and the finally block is next.
TestRaise(calls, step) ==
    /\ t_calls' = calls
    /\ t_failed' = t_failed \cup {step}
    /\ t_return' = None
    /\ t_pc' = "finally"
    /\ UNCHANGED <<t_args, t_exc, add_pc>>
    /\ TestFrame

\* A call of the external tool inside the try block: then `next`, or the
\* exception.
TestToolCall(op, ok, next) ==
    IF ok
    THEN /\ t_calls' = Append(t_calls, Call(op))
         /\ t_pc' = next
         /\ UNCHANGED <<t_args, t_failed, t_exc, t_return, add_pc>>
         /\ TestFrame
    ELSE TestRaise(Append(t_calls, Call(op)), op)

\* _test: "Run install test?" ; _test_airbyte: the airbyte_name prompt, then
\* the install without a question.
TestStart(answer) ==
    /\ t_pc = "start"
    /\ IF t_args.kind = "_test_airbyte"
       THEN TestGoto("add")
       ELSE IF Prompt(answer, TRUE) THEN TestGoto("add") ELSE TestGoto("installed")

\* MeltanoUtil.add
TestAdd(ok) ==
    /\ t_pc = "add"
    /\ TestToolCall("add", ok,
                    IF t_args.kind = "_test_airbyte" THEN "config_image" ELSE "help_test")

\* MeltanoUtil.command: airbyte_spec.image, then airbyte_spec.tag
TestCommand(ok) ==
    /\ t_pc \in {"config_image", "config_tag"}
    /\ TestToolCall("command", ok,
                    IF t_pc = "config_image" THEN "config_tag" ELSE "help_test")

\* MeltanoUtil.help_test
TestHelp(ok) ==
    /\ t_pc = "help_test"
    /\ TestToolCall("help_test", ok,
                    IF t_args.kind = "_test_airbyte" THEN "scrape" ELSE "installed")

\* _test: if is_meltano_sdk, "Scrape SDK --about settings?"
TestScrapePrompt(answer) ==
    /\ t_pc = "installed"
    /\ IF t_args.is_meltano_sdk /\ Prompt(answer, TRUE)
       THEN TestGoto("scrape")
       ELSE TestGoto("finally")

\* MeltanoUtil.sdk_about, or the `meltano invoke --about` subprocess and the
\* parse of its output: the document is returned, or the inner except asks.
TestScrape(ok) ==
    /\ t_pc = "scrape"
    /\ t_calls' = Append(t_calls, Call("about"))
    /\ IF ok
       THEN /\ t_return' = "about"
            /\ t_pc' = "finally"
            /\ UNCHANGED t_failed
       ELSE /\ t_return' = None
            /\ t_pc' = "scrape_failed"
            /\ t_failed' = t_failed \cup {"about"}
    /\ UNCHANGED <<t_args, t_exc, add_pc>>
    /\ TestFrame

\* "Scrape failed! Provide as json?"
TestProvidePrompt(answer) ==
    /\ t_pc = "scrape_failed"
    /\ IF Prompt(answer, TRUE) THEN TestGoto("provide") ELSE TestGoto("finally")

\* return json.loads(self._prompt("Provide --about output"))
TestProvide(text) ==
    /\ t_pc = "provide"
    /\ LET loaded == JsonLoads(Prompt(text, None))
       IN  IF loaded.ok
           THEN /\ t_return' = loaded.value
                /\ t_pc' = "finally"
                /\ UNCHANGED <<t_args, t_calls, t_failed, t_exc, add_pc>>
                /\ TestFrame
           ELSE TestRaise(t_calls, "json")

\* finally: MeltanoUtil.remove(plugin_name, plugin_type).  When it raises, the
\* exception leaves the cycle in place of the return value.
TestRemove(ok) ==
    /\ t_pc = "finally"
    /\ t_calls' = Append(t_calls, Call("remove"))
    /\ t_pc' = "done"
    /\ IF ok
       THEN UNCHANGED <<t_failed, t_exc, t_return>>
       ELSE /\ t_failed' = t_failed \cup {"remove"}
            /\ t_exc' = TRUE
            /\ t_return' = None
    /\ UNCHANGED <<t_args, add_pc>>
    /\ TestFrame

\* add, add_airbyte: `if sdk_about_dict:` chooses the parse of the document or
\* the manual entry; an exception out of the cycle leaves add.
AddAfterTest ==
    /\ t_pc = "done"
    /\ add_pc = "testing"
    /\ add_pc' = IF t_exc THEN "raised"
                 ELSE IF AboutTruthy(t_return) THEN "sdk" ELSE "manual"
    /\ UNCHANGED <<t_args, t_pc, t_calls, t_failed, t_exc, t_return>>
    /\ TestFrame

\* The rest of add, to _write_definition and the registries.
AddWrite ==
    /\ add_pc \in {"sdk", "manual"}
    /\ add_pc' = IF add_pc = "sdk" THEN "written_sdk" ELSE "written_manual"
    /\ UNCHANGED <<t_args, t_pc, t_calls, t_failed, t_exc, t_return>>
    /\ TestFrame

TestInit ==
    /\ t_args \in [kind : {"_test", "_test_airbyte"}, plugin_name : TestNames,
                   plugin_type : PluginTypes, is_meltano_sdk : BOOLEAN]
    /\ t_args.kind = "_test_airbyte" =>
          t_args.plugin_type = "extractors" /\ t_args.is_meltano_sdk
    /\ t_pc = "start"
    /\ t_calls = <<>>
    /\ t_failed = {}
    /\ t_exc = FALSE
    /\ t_return = None
    /\ add_pc = "testing"

TestIdle ==
    /\ t_args = NoCall /\ t_pc = "idle" /\ t_calls = <<>> /\ t_failed = {}
    /\ t_exc = FALSE /\ t_return = None /\ add_pc = "idle"

TestNext ==
    \/ \E answer \in BOOLEAN : TestStart(answer)
    \/ \E ok \in BOOLEAN : TestAdd(ok)
    \/ \E ok \in BOOLEAN : TestCommand(ok)
    \/ \E ok \in BOOLEAN : TestHelp(ok)
    \/ \E answer \in BOOLEAN : TestScrapePrompt(answer)
    \/ \E ok \in BOOLEAN : TestScrape(ok)
    \/ \E answer \in BOOLEAN : TestProvidePrompt(answer)
    \/ \E text \in AboutTexts : TestProvide(text)
    \/ \E ok \in BOOLEAN : TestRemove(ok)
    \/ AddAfterTest
    \/ AddWrite

(***************************************************************************)
(* _merge_definitions                                                      *)
(***************************************************************************)
MergeFrame ==
    UNCHANGED <<auto_accept, wdVars, dvVars, hmVars, bulkVars, testVars,
                bsVars, csVars, typeVars, addVars>>

\* A definition is a mapping from field names to values; a definition on disk
\* has the fields below, some of them only in some files.
RequiredFields == {"name", "label", "settings", "maintenance_status"}
OptionalFields == {"executable", "keywords", "capabilities",
                   "settings_group_validation"}
FieldValues == {"x", "y"}
ExistingDefs ==
    UNION {[RequiredFields \cup O -> FieldValues] : O \in SUBSET OptionalFields}

NoDef == [unset |-> TRUE]

\* d[key] = value on the mapping d
SetItem(d, key, value) ==
    [f \in (DOMAIN d) \cup {key} |-> IF f = key THEN value ELSE d[f]]

\* A merge without the copy: new_def is the existing mapping itself, and the
\* five assignments land in it.
MergeDefinitionsInPlace(existing, settings_, keywords, m_status, caps, sgv) ==
    LET d1 == SetItem(existing, "settings", settings_)
        d2 == SetItem(d1, "keywords", keywords)
        d3 == SetItem(d2, "maintenance_status", m_status)
        d4 == SetItem(d3, "capabilities", caps)
        d5 == SetItem(d4, "settings_group_validation", sgv)
    IN  [existing |-> d5, returned |-> d5]

\* _merge_definitions: the mapping passed in as it is after the call, and the
\* mapping returned.
MergeDefinitions(existing, settings_, keywords, m_status, caps, sgv) ==
    LET new0 == existing
        new1 == SetItem(new0, "settings", settings_)
        new2 == SetItem(new1, "keywords", keywords)
        new3 == SetItem(new2, "maintenance_status", m_status)
        new4 == SetItem(new3, "capabilities", caps)
        new5 == SetItem(new4, "settings_group_validation", sgv)
    IN  [existing |-> existing, returned |-> new5]

\* update, update_sdk: new_def = self._merge_definitions(existing_def, ...)
Merge(settings_, keywords, m_status, caps, sgv) ==
    /\ merge_args = NoCall
    /\ LET result == MergeDefinitions(existing_def, settings_, keywords, m_status,
                                      caps, sgv)
       IN  /\ existing_def' = result.existing
           /\ new_def' = result.returned
    /\ merge_args' = [op |-> "_merge_definitions", settings |-> settings_,
                      keywords |-> keywords, maintenance_status |-> m_status,
                      capabilities |-> caps, settings_group_validation |-> sgv]
    /\ MergeFrame

MergeInit ==
    /\ existing_def \in ExistingDefs
    /\ new_def = NoDef
    /\ merge_args = NoCall

MergeIdle ==
    /\ existing_def = NoDef /\ new_def = NoDef /\ merge_args = NoCall

MergeNext ==
    \E settings_ \in FieldValues, keywords \in FieldValues, m_status \in FieldValues,
       caps \in FieldValues, sgv \in FieldValues :
        Merge(settings_, keywords, m_status, caps, sgv)

(***************************************************************************)
(* _build_settings                                                         *)
(***************************************************************************)
MaxSettings == 3

BsFrame ==
    UNCHANGED <<auto_accept, wdVars, dvVars, hmVars, bulkVars, testVars,
                mergeVars, csVars, typeVars, addVars>>

SettingNames == {"api_key", "start-date"}
SettingLists == UNION {[1..n -> SettingNames] : n \in 0..MaxSettings}

\* class Kind
Kinds == {"string", "boolean", "integer", "object", "array"}

\* _get_label(setting) with no plugin type:
\* name.replace('_', ' ').replace('-', ' ').title(), on the names above.
GetLabel(name) ==
    CASE name = "api_key" -> "Api Key"
      [] name = "start-date" -> "Start Date"

NotReturned == [returned |-> FALSE]

\* A builder that records the kind of every setting, `string` too.
BuildSettingAlwaysKind(kind_answer, required_answer, default_kind) ==
    /\ bs_index < Len(setting_list)
    /\ LET setting == setting_list[bs_index + 1]
           label == Prompt("Typed Label", GetLabel(setting))
           kind == Prompt(kind_answer, default_kind)
           description == Prompt("typed description", "default description")
           required == Prompt(required_answer, FALSE)
           setting_details ==
               [name |-> setting, label |-> label, description |-> description,
                kind |-> kind]
       IN  /\ settings' = Append(settings, setting_details)
           /\ settings_group_validation' =
                  IF required THEN Append(settings_group_validation, setting)
                  ELSE settings_group_validation
           /\ bs_answers' = Append(bs_answers, [kind |-> kind, required |-> required])
    /\ bs_index' = bs_index + 1
    /\ UNCHANGED <<setting_list, bs_return>>
    /\ BsFrame

\* One turn of the loop: the four prompts for a setting, its record (with
\* `kind` only when the kind is not `string`), its name in the validation
\* group when required.  default_kind is MeltanoUtil._parse_kind("string", ..),
\* the default of the kind prompt.
BuildSetting(kind_answer, required_answer, default_kind) ==
    /\ bs_index < Len(setting_list)
    /\ LET setting == setting_list[bs_index + 1]
           label == Prompt("Typed Label", GetLabel(setting))
           kind == Prompt(kind_answer, default_kind)
           description == Prompt("typed description", "default description")
           required == Prompt(required_answer, FALSE)
           setting_details ==
               [name |-> setting, label |-> label, description |-> description]
       IN  /\ settings' =
                  Append(settings,
                         IF kind # "string"
                         THEN [f \in (DOMAIN setting_details) \cup {"kind"} |->
                                  IF f = "kind" THEN kind ELSE setting_details[f]]
                         ELSE setting_details)
           /\ settings_group_validation' =
                  IF required THEN Append(settings_group_validation, setting)
                  ELSE settings_group_validation
           /\ bs_answers' = Append(bs_answers, [kind |-> kind, required |-> required])
    /\ bs_index' = bs_index + 1
    /\ UNCHANGED <<setting_list, bs_return>>
    /\ BsFrame

\* return settings, [settings_group_validation]
BuildReturn ==
    /\ bs_index = Len(setting_list)
    /\ bs_return = NotReturned
    /\ bs_return' = [returned |-> TRUE, settings |-> settings,
                     settings_group_validation |-> <<settings_group_validation>>]
    /\ UNCHANGED <<setting_list, bs_index, settings, settings_group_validation,
                   bs_answers>>
    /\ BsFrame

BsInit ==
    /\ setting_list \in SettingLists
    /\ bs_index = 0
    /\ settings = <<>>
    /\ settings_group_validation = <<>>
    /\ bs_answers = <<>>
    /\ bs_return = NotReturned

BsIdle ==
    /\ setting_list = <<>> /\ bs_index = 0 /\ settings = <<>>
    /\ settings_group_validation = <<>> /\ bs_answers = <<>>
    /\ bs_return = NotReturned

BsNext ==
    \/ \E kind_answer \in Kinds, required_answer \in BOOLEAN, default_kind \in Kinds :
          BuildSetting(kind_answer, required_answer, default_kind)
    \/ BuildReturn

(***************************************************************************)
(* _compile_settings                                                       *)
(***************************************************************************)
MaxCollected == 3

CsFrame ==
    UNCHANGED <<auto_accept, wdVars, dvVars, hmVars, bulkVars, testVars,
                mergeVars, bsVars, typeVars, addVars>>

\* What the operator types at a prompt: a setting name, the text `[]`, or
\* nothing (the return key alone).
CsNames == {"a", "b"}
TypedTexts == CsNames \cup {"[]", ""}

\* The lists update passes as seed: the names of the settings on disk.
SeedLists == {<<"a">>, <<"b", "a">>}

\* repr of a string without quotes or backslashes in it
Repr(s) == "'" \o s \o "'"

\* str(list): the reprs of the items between brackets, ", " between them.
RECURSIVE JoinReprs(_)
JoinReprs(list) ==
    IF list = <<>> THEN ""
    ELSE IF Len(list) = 1 THEN Repr(list[1])
    ELSE Repr(list[1]) \o ", " \o JoinReprs(Tail(list))

Str(list) == "[" \o JoinReprs(list) \o "]"

\* _prompt(text, default_val=settings) outside auto-accept mode.  An empty
\* list is no default: typer asks until something is typed.  With a default,
\* the return key alone gives the default, which click hands back as its str.
CanSubmit(typed, list) == typed # "" \/ list # <<>>
Submitted(typed, list) == IF typed = "" THEN Str(list) ELSE typed

\* list(set(settings)): the distinct items, in an order of Python's choosing.
ListsOfSet(S) ==
    {s \in [1..Cardinality(S) -> S] : \A i, j \in 1..Cardinality(S) : s[i] = s[j] => i = j}

\* settings = seed, with seed the default list object (add, add_airbyte)
CompileStartDefault ==
    /\ cs_pc \in {"ready", "returned"}
    /\ cs_settings' = cs_default
    /\ cs_aliased' = TRUE
    /\ cs_pc' = "loop"
    /\ cs_submitted' = <<>>
    /\ UNCHANGED <<cs_default, cs_return>>
    /\ CsFrame

\* settings = seed, with seed a list of the caller (update)
CompileStartSeed(seed) ==
    /\ cs_pc \in {"ready", "returned"}
    /\ cs_settings' = seed
    /\ cs_aliased' = FALSE
    /\ cs_pc' = "loop"
    /\ cs_submitted' = <<>>
    /\ UNCHANGED <<cs_default, cs_return>>
    /\ CsFrame

\* return list(set(settings))
CompileReturn(list) ==
    /\ \E result \in ListsOfSet(Range(list)) :
          cs_return' = [returned |-> TRUE, list |-> result]
    /\ cs_pc' = "returned"

\* A loop that ends when the operator submits the value submitted just before.
CompileSubmitRepeatEnds(typed) ==
    /\ cs_pc = "loop"
    /\ ~auto_accept
    /\ CanSubmit(typed, cs_settings)
    /\ LET setting == Submitted(typed, cs_settings)
       IN  /\ cs_submitted' = Append(cs_submitted, setting)
           /\ IF cs_submitted # <<>> /\ setting = cs_submitted[Len(cs_submitted)]
              THEN /\ CompileReturn(cs_settings)
                   /\ UNCHANGED <<cs_settings, cs_default, cs_aliased>>
              ELSE /\ Len(cs_settings) < MaxCollected
                   /\ cs_settings' = Append(cs_settings, setting)
                   /\ cs_default' = IF cs_aliased THEN cs_settings' ELSE cs_default
                   /\ UNCHANGED <<cs_pc, cs_return, cs_aliased>>
    /\ CsFrame

\* One turn of the loop: the prompt, then the break and the return, or the
\* append (which lands in the default list object when settings is that list).
CompileSubmit(typed) ==
    /\ cs_pc = "loop"
    /\ ~auto_accept
    /\ CanSubmit(typed, cs_settings)
    /\ LET setting == Submitted(typed, cs_settings)
       IN  /\ cs_submitted' = Append(cs_submitted, setting)
           /\ IF setting = Str(cs_settings)
              THEN /\ CompileReturn(cs_settings)
                   /\ UNCHANGED <<cs_settings, cs_default, cs_aliased>>
              ELSE /\ Len(cs_settings) < MaxCollected
                   /\ cs_settings' = Append(cs_settings, setting)
                   /\ cs_default' = IF cs_aliased THEN cs_settings' ELSE cs_default
                   /\ UNCHANGED <<cs_pc, cs_return, cs_aliased>>
    /\ CsFrame

\* auto-accept mode: the loop is not entered.
CompileNoLoop ==
    /\ cs_pc = "loop"
    /\ auto_accept
    /\ CompileReturn(cs_settings)
    /\ UNCHANGED <<cs_settings, cs_default, cs_aliased, cs_submitted>>
    /\ CsFrame

CsInit ==
    /\ cs_default = <<>>
    /\ cs_settings = <<>>
    /\ cs_aliased = FALSE
    /\ cs_pc = "ready"
    /\ cs_submitted = <<>>
    /\ cs_return = NotReturned

CsIdle ==
    /\ cs_default = <<>> /\ cs_settings = <<>> /\ cs_aliased = FALSE
    /\ cs_pc = "idle" /\ cs_submitted = <<>> /\ cs_return = NotReturned

CsNext ==
    \/ CompileStartDefault
    \/ \E seed \in SeedLists : CompileStartSeed(seed)
    \/ \E typed \in TypedTexts : CompileSubmit(typed)
    \/ CompileNoLoop

(***************************************************************************)
(* get_plugin_type                                                         *)
(***************************************************************************)
MaxPieces == 3

TypeFrame ==
    UNCHANGED <<auto_accept, wdVars, dvVars, hmVars, bulkVars, testVars,
                mergeVars, bsVars, csVars, addVars>>

\* A name is a sequence of characters.  The names tried are made of up to
\* MaxPieces pieces; a marker may also come about across two pieces.
Pieces == {<<"t", "a", "p", "-">>, <<"t", "a", "r", "g", "e", "t", "-">>,
           <<"t", "a", "p">>, <<"-">>, <<"x">>}

RECURSIVE Concat(_)
Concat(pieces) ==
    IF pieces = <<>> THEN <<>> ELSE Head(pieces) \o Concat(Tail(pieces))

TypeNames == {Concat(ps) : ps \in UNION {[1..n -> Pieces] : n \in 0..MaxPieces}}

TapMarker == <<"t", "a", "p", "-">>
TargetMarker == <<"t", "a", "r", "g", "e", "t", "-">>

IsPrefix(sub, s) == Len(sub) <= Len(s) /\ SubSeq(s, 1, Len(sub)) = sub

\* Python's `sub in s` for strings: s is scanned from the left.
RECURSIVE Contains(_, _)
Contains(sub, s) ==
    IF Len(s) < Len(sub) THEN FALSE
    ELSE IsPrefix(sub, s) \/ Contains(sub, Tail(s))

\* A classification that tests the markers one after the other, the extractor
\* marker first, and never raises.
GetPluginTypeTapFirst(name) ==
    IF Contains(TapMarker, name)
    THEN [raised |-> FALSE, value |-> "extractors"]
    ELSE IF Contains(TargetMarker, name)
         THEN [raised |-> FALSE, value |-> "loaders"]
         ELSE [raised |-> FALSE, value |-> None]

\* get_plugin_type: the exception, the type, or None when the function ends
\* without a return.
GetPluginType(name) ==
    IF Contains(TapMarker, name) /\ Contains(TargetMarker, name)
    THEN [raised |-> TRUE, value |-> None]
    ELSE IF Contains(TapMarker, name)
         THEN [raised |-> FALSE, value |-> "extractors"]
         ELSE IF Contains(TargetMarker, name)
              THEN [raised |-> FALSE, value |-> "loaders"]
              ELSE [raised |-> FALSE, value |-> None]

NotCalled == [called |-> FALSE]

Classify ==
    /\ type_result = NotCalled
    /\ LET r == GetPluginType(plugin_name)
       IN  type_result' = [called |-> TRUE, raised |-> r.raised, value |-> r.value]
    /\ UNCHANGED plugin_name
    /\ TypeFrame

TypeInit ==
    /\ plugin_name \in TypeNames
    /\ type_result = NotCalled

TypeIdle ==
    /\ plugin_name = <<>> /\ type_result = NotCalled

TypeNext == Classify

(***************************************************************************)
(* add: one plugin from its repository URL, from the first prompt to the   *)
(* reformat pass.                                                          *)
(***************************************************************************)
AddFrame ==
    UNCHANGED <<auto_accept, wd_call, hdv_call, hm_first, hm_call, bulkVars,
                testVars, mergeVars, bsVars, csVars, typeVars>>

\* The owner and the name segments of the URLs tried.  `x` carries neither
\* marker; `target-labs` puts the loader marker into the owner.
Owners == {"MeltanoLabs", "singer-io", "target-labs"}

\* repo_url.split("/") of https://github.com/{owner}/{name}
AddUrls ==
    {<<"https:", "", "github.com", o, n>> : o \in Owners, n \in PluginNames}
    \cup {<<"https:", "", "github.com", "MeltanoLabs", "x">>}

\* No URL: None, for which `not repo_url` holds.
NoUrl == <<>>

\* The characters of a segment.
Spell(segment) ==
    CASE segment = "https:" -> <<"h", "t", "t", "p", "s", ":">>
      [] segment = "" -> <<>>
      [] segment = "github.com" -> <<"g", "i", "t", "h", "u", "b", ".", "c", "o", "m">>
      [] segment = "MeltanoLabs" -> <<"M", "e", "l", "t", "a", "n", "o", "L", "a", "b", "s">>
      [] segment = "singer-io" -> <<"s", "i", "n", "g", "e", "r", "-", "i", "o">>
      [] segment = "target-labs" -> <<"t", "a", "r", "g", "e", "t", "-", "l", "a", "b", "s">>
      [] segment = "tap-a" -> <<"t", "a", "p", "-", "a">>
      [] segment = "x" -> <<"x">>

\* The URL as one string: the segments with "/" between them.
RECURSIVE UrlText(_)
UrlText(repo_url) ==
    IF Len(repo_url) = 1 THEN Spell(repo_url[1])
    ELSE Spell(Head(repo_url)) \o <<"/">> \o UrlText(Tail(repo_url))

\* get_plugin_type(repo_url): add classifies the URL, not the name.
UrlType == [u \in AddUrls |-> GetPluginType(UrlText(u))]

\* str.lower() on the owners above.
Lower(segment) == IF segment = "MeltanoLabs" THEN "meltanolabs" ELSE segment

\* _get_plugin_name: repo_url.split("/")[-1]
GetPluginName(repo_url) == repo_url[Len(repo_url)]

\* _get_plugin_variant: repo_url.split("/")[-2].lower()
GetPluginVariant(repo_url) == Lower(repo_url[Len(repo_url) - 1])

\* The last segment of logo_url: the label of _get_label(name, plugin_type),
\* lower-cased, with `.png`.  `tap-a` holds no `target-`, so as a loader its
\* label is empty.
LogoFileName(name, plugin_type) ==
    IF name = "tap-a" /\ plugin_type = "extractors" THEN "a.png" ELSE ".png"

\* What the operator would answer to add's prompts.
AddAnswers ==
    [repo_url : {<<"https:", "", "github.com", "singer-io", "tap-a">>},
     plugin_name : PluginNames, plugin_type : {"extractors"},
     variant : {"singer-io"}, description : {"d1"}, overwrite : BOOLEAN, overwrite_default : BOOLEAN,
     use_logo : BOOLEAN, image_path : {"skip", "logo.png"}]

\* How the test cycle ends for add: a document that counts as true, a value
\* that counts as false, or an exception out of its finally block.
TestOutcomes == {"about", "none", "raised"}

\* _prompt hands a question to typer.prompt only outside auto-accept mode.
Solicited(questions) == IF auto_accept THEN {} ELSE questions

\* A prompted value and its default: the same, where the prompt was reached.
Same(reached, value, default_val) == reached => value = default_val

AddRecord(plugin_type, name, variant, existed, variant_exists, questions, took) ==
    [op |-> "add", type |-> plugin_type, name |-> name, variant |-> variant,
     existed |-> existed, variant_exists |-> variant_exists,
     solicited |-> Solicited(questions), took_defaults |-> took]

\* add is left by an exception before it has written anything.
AddRaise(plugin_type, name, questions, took_defaults) ==
    /\ add_call' = AddRecord(plugin_type, name, None, FALSE, FALSE, questions,
                             took_defaults)
    /\ UNCHANGED <<files, defaults, maintainers, logos>>
    /\ AddFrame

\* The prompts of add up to the test cycle, and those from there to the
\* definition.
QuestionsToTest ==
    {"plugin name", "plugin type", "pip_url", "namespace", "executable",
     "is_meltano_sdk", "Run install test?"}
QuestionsToDefinition(test) ==
    (IF test = "about" THEN {} ELSE {"settings", "capabilities"})
    \cup {"keywords", "plugin variant", "label", "description", "domain_url",
          "maintenance_status"}

\* add from `plugin variant` on: the definition, _write_definition,
\* _handle_default_variant, _handle_maintainer, _handle_logo.  The lint
\* script of _reformat rewrites the three files with the data they hold.
AddRegister(repo_url, name, plugin_type, a, questions, took) ==
    LET variant == Prompt(a.variant, GetPluginVariant(repo_url))
        description == Prompt(a.description, "")
        took_so_far == /\ took
                       /\ variant = GetPluginVariant(repo_url)
                       /\ description = ""
    IN  IF plugin_type = None
        THEN \* os.path.join(..., None, ...) in _write_definition
             AddRaise(None, name, questions, took_so_far)
        ELSE
        LET logo_file_name == LogoFileName(name, plugin_type)
            definition == [name |-> name, variant |-> variant,
                           description |-> description,
                           logo_url |-> <<plugin_type, logo_file_name>>]
            yaml_path == DefPath(definition, plugin_type)
            existed == files[yaml_path] # NoFile
            overwrite == IF existed THEN Prompt(a.overwrite, FALSE) ELSE FALSE
            plugin_type_defaults == defaults[plugin_type]
            variant_exists == name \in DOMAIN plugin_type_defaults
            overwrite_default ==
                IF variant_exists THEN Prompt(a.overwrite_default, FALSE) ELSE FALSE
            use_logo == variant_exists /\ Prompt(a.use_logo, TRUE)
            image_path == Prompt(a.image_path, "skip")
            copy == ~use_logo /\ image_path # "skip"
        IN  /\ files' = IF ~existed \/ overwrite
                        THEN [files EXCEPT ![yaml_path] = definition]
                        ELSE files
            /\ defaults' =
                   IF ~variant_exists \/ overwrite_default
                   THEN UpdateVariantFile(plugin_type_defaults, name, variant,
                                          defaults, plugin_type)
                   ELSE defaults
            /\ maintainers' =
                   IF variant \notin Keys(maintainers)
                   THEN Sorted(Append(maintainers, NewMaintainer(variant, repo_url)))
                   ELSE maintainers
            /\ logos' = IF copy
                        THEN logos \cup {<<plugin_type, logo_file_name>>}
                        ELSE logos
            /\ add_call' =
                   AddRecord(plugin_type, name, variant, existed, variant_exists,
                             questions
                               \cup (IF existed THEN {"overwrite definition"} ELSE {})
                               \cup (IF variant_exists
                                     THEN {"overwrite default", "use logo"} ELSE {})
                               \cup (IF use_logo THEN {} ELSE {"image path"}),
                             /\ took_so_far
                             /\ Same(existed, overwrite, FALSE)
                             /\ Same(variant_exists, overwrite_default, FALSE)
                             /\ Same(variant_exists, Prompt(a.use_logo, TRUE), TRUE)
                             /\ Same(~use_logo, image_path, "skip"))
            /\ AddFrame

\* add(repo_url): `given` is the argument, `a` the operator's answers, `test`
\* the end of the test cycle.
Add(given, a, test) ==
    LET asked_url == given = NoUrl
        repo_url == IF asked_url THEN Prompt(a.repo_url, NoUrl) ELSE given
        asked == IF asked_url THEN {"repo_url"} ELSE {}
        took_url == Same(asked_url, repo_url, NoUrl)
    IN  IF repo_url = NoUrl
        THEN \* None.split("/") in _get_plugin_name
             AddRaise(None, None, asked, took_url)
        ELSE
        LET name == Prompt(a.plugin_name, GetPluginName(repo_url))
            type == UrlType[repo_url]
            took_name == took_url /\ name = GetPluginName(repo_url)
        IN  IF type.raised
            THEN \* get_plugin_type(repo_url)
                 AddRaise(None, name, asked \cup {"plugin name"}, took_name)
            ELSE
            LET plugin_type == Prompt(a.plugin_type, type.value)
                took_type == took_name /\ plugin_type = type.value
            IN  IF test = "raised"
                THEN AddRaise(plugin_type, name, asked \cup QuestionsToTest,
                              took_type)
                ELSE AddRegister(repo_url, name, plugin_type, a,
                                 asked \cup QuestionsToTest
                                       \cup QuestionsToDefinition(test),
                                 took_type)

\* A definition file written before the run.
OldDefinition(k) ==
    [name |-> k[2], variant |-> k[3], description |-> "d1",
     logo_url |-> <<k[1], LogoFileName(k[2], k[1])>>]

\* The hub tree before the run: any of the files and entries may be there.
AddInit ==
    /\ files \in {[k \in DefKeys |-> IF k \in S THEN OldDefinition(k) ELSE NoFile] :
                     S \in SUBSET DefKeys}
    /\ wd_call = NoCall
    /\ defaults \in [PluginTypes -> UNION {[D -> Variants] : D \in SUBSET PluginNames}]
    /\ hdv_call = NoCall
    /\ maintainers \in {<<>>, <<OldMaintainer>>}
    /\ hm_first = [k \in MaintainerKeys |-> [set |-> FALSE]]
    /\ hm_call = NoCall
    /\ logos = {}
    /\ add_call = NoCall

AddIdle ==
    /\ logos = {} /\ add_call = NoCall

AddNext ==
    \E given \in AddUrls \cup {NoUrl}, a \in AddAnswers, test \in TestOutcomes :
        Add(given, a, test)


(***************************************************************************)
(* The specifications, one per component.                                  *)
(***************************************************************************)
Init ==
    /\ auto_accept \in BOOLEAN
    /\ WdInit /\ DvIdle /\ HmIdle /\ BulkIdle /\ TestIdle /\ MergeIdle
    /\ BsIdle /\ CsIdle /\ TypeIdle /\ AddIdle

Next == WdNext

\* _write_definition
Spec == Init /\ [][Next]_vars

InitDefaultVariant ==
    /\ auto_accept \in BOOLEAN
    /\ WdIdle /\ DvInit /\ HmIdle /\ BulkIdle /\ TestIdle /\ MergeIdle
    /\ BsIdle /\ CsIdle /\ TypeIdle /\ AddIdle

\* _handle_default_variant
SpecDefaultVariant == InitDefaultVariant /\ [][DvNext]_vars

InitMaintainer ==
    /\ auto_accept \in BOOLEAN
    /\ WdIdle /\ DvIdle /\ HmInit /\ BulkIdle /\ TestIdle /\ MergeIdle
    /\ BsIdle /\ CsIdle /\ TypeIdle /\ AddIdle

\* _handle_maintainer
SpecMaintainer == InitMaintainer /\ [][HmNext]_vars

InitBulk ==
    /\ auto_accept \in BOOLEAN
    /\ WdIdle /\ DvIdle /\ HmIdle /\ BulkInit /\ TestIdle /\ MergeIdle
    /\ BsIdle /\ CsIdle /\ TypeIdle /\ AddIdle

\* add_bulk
SpecBulk == InitBulk /\ [][BulkNext]_vars

InitTest ==
    /\ auto_accept \in BOOLEAN
    /\ WdIdle /\ DvIdle /\ HmIdle /\ BulkIdle /\ TestInit /\ MergeIdle
    /\ BsIdle /\ CsIdle /\ TypeIdle /\ AddIdle

\* _test and _test_airbyte inside add and add_airbyte
SpecTest == InitTest /\ [][TestNext]_vars

InitMerge ==
    /\ auto_accept \in BOOLEAN
    /\ WdIdle /\ DvIdle /\ HmIdle /\ BulkIdle /\ TestIdle /\ MergeInit
    /\ BsIdle /\ CsIdle /\ TypeIdle /\ AddIdle

\* _merge_definitions inside update and update_sdk
SpecMerge == InitMerge /\ [][MergeNext]_vars

InitBuild ==
    /\ auto_accept \in BOOLEAN
    /\ WdIdle /\ DvIdle /\ HmIdle /\ BulkIdle /\ TestIdle /\ MergeIdle
    /\ BsInit /\ CsIdle /\ TypeIdle /\ AddIdle

\* _build_settings
SpecBuild == InitBuild /\ [][BsNext]_vars

InitCompile ==
    /\ auto_accept \in BOOLEAN
    /\ WdIdle /\ DvIdle /\ HmIdle /\ BulkIdle /\ TestIdle /\ MergeIdle
    /\ BsIdle /\ CsInit /\ TypeIdle /\ AddIdle

\* _compile_settings, call after call in one process
SpecCompile == InitCompile /\ [][CsNext]_vars

InitType ==
    /\ auto_accept \in BOOLEAN
    /\ WdIdle /\ DvIdle /\ HmIdle /\ BulkIdle /\ TestIdle /\ MergeIdle
    /\ BsIdle /\ CsIdle /\ TypeInit /\ AddIdle

\* get_plugin_type
SpecType == InitType /\ [][TypeNext]_vars

InitAdd ==
    /\ auto_accept \in BOOLEAN
    /\ AddInit /\ BulkIdle /\ TestIdle /\ MergeIdle /\ BsIdle /\ CsIdle
    /\ TypeIdle

\* add, call after call on one hub tree
SpecAdd == InitAdd /\ [][AddNext]_vars

(***************************************************************************)
(* The claims.                                                           *)
(***************************************************************************)
\* C1: a _write_definition call changes a definition file only if it is the
\* call's own file and that file did not exist before the call or the operator
\* answered yes to the overwrite prompt; with the file present and the answer
\* no (the default) the file is after the call what it was before.
C1_DeclinedOverwriteKeepsFile ==
    [][\A k \in DefKeys :
          /\ (wd_call'.path = k /\ files[k] # NoFile /\ ~wd_call'.overwrite)
                => files'[k] = files[k]
          /\ files'[k] # files[k]
                => /\ wd_call'.path = k
                   /\ \/ files[k] = NoFile
                      \/ wd_call'.prompted /\ wd_call'.overwrite]_vars

\* An existing file, a different definition offered, the overwrite declined.
C1_Witness ==
    /\ wd_call.op = "_write_definition"
    /\ wd_call.existed
    /\ ~wd_call.overwrite
    /\ files[wd_call.path] # NoFile
    /\ files[wd_call.path] # wd_call.definition


\* C2: _handle_default_variant for (type, name, variant) records the variant
\* without a prompt when (type, name) has no default; leaves the registry as it
\* was when a default exists and the overwrite is declined; makes the entry the
\* new variant when it is confirmed; never touches the entry of another
\* (type, name); and returns a truthy value exactly when a default existed
\* before the call.
C2_DefaultVariantUpdate ==
    [][LET c == hdv_call'
           existed == c.name \in DOMAIN defaults[c.type]
       IN  /\ ~existed =>
                /\ ~c.prompted
                /\ c.name \in DOMAIN defaults'[c.type]
                /\ defaults'[c.type][c.name] = c.variant
           /\ (existed /\ ~c.overwrite) => defaults' = defaults
           /\ (existed /\ c.overwrite) =>
                /\ c.name \in DOMAIN defaults'[c.type]
                /\ defaults'[c.type][c.name] = c.variant
           /\ \A t \in PluginTypes, n \in DvNames :
                <<t, n>> # <<c.type, c.name>> =>
                    /\ (n \in DOMAIN defaults'[t]) = (n \in DOMAIN defaults[t])
                    /\ n \in DOMAIN defaults[t] => defaults'[t][n] = defaults[t][n]
           /\ Truthy(c.returned) = existed]_vars

\* A default existed, another variant was offered and confirmed, and the entry
\* is the new variant while another pair still has its own entry.
C2_Witness ==
    /\ hdv_call.op = "_handle_default_variant"
    /\ hdv_call.prompted
    /\ hdv_call.overwrite
    /\ Truthy(hdv_call.returned)
    /\ defaults[hdv_call.type][hdv_call.name] = hdv_call.variant
    /\ \E t \in PluginTypes, n \in DvNames :
          /\ <<t, n>> # <<hdv_call.type, hdv_call.name>>
          /\ n \in DOMAIN defaults[t]
          /\ defaults[t][n] # hdv_call.variant

\* The record of a key introduced by a call is the one derived from that call.
C3_FirstWriterRecord ==
    \A k \in MaintainerKeys :
        hm_first[k].set =>
            \E i \in 1..Len(maintainers) :
                LET r == maintainers[i]
                    repo_url == hm_first[k].repo_url
                IN  /\ r.key = k
                    /\ r.label = k
                    /\ r.name = k
                    /\ IF Len(repo_url) >= 2
                       THEN r.url \o <<repo_url[Len(repo_url)]>> = repo_url
                       ELSE r.url = <<"">>
                    /\ \A j \in 1..Len(maintainers) : maintainers[j].key = k => j = i

\* C3: after any sequence of _handle_maintainer calls, the label, url and name
\* of a key are those derived from the first call that introduced it (label =
\* name = variant, url = the repository URL without its last segment), and a
\* call for a key already present changes nothing in the registry.
C3_FirstWriterWins ==
    /\ []C3_FirstWriterRecord
    /\ [][hm_call'.variant \in Keys(maintainers) => maintainers' = maintainers]_vars

\* A key introduced by one call, then a call for the same key with a URL that
\* would give another record.
C3_Witness ==
    /\ hm_call.op = "_handle_maintainer"
    /\ hm_call.present
    /\ hm_call.differs
    /\ hm_first[hm_call.variant].set
    /\ Len(maintainers) >= 2

\* The rows of the input CSV, header included and in order, whose column 0 is
\* not the URL of any of the first k data rows.
RemainingAfter(k) ==
    LET gone == {csv_file[j].url : j \in 2..(k + 1)}
        keep == {i \in 1..Len(csv_file) : csv_file[i].url \notin gone}
        nth[n \in 0..Len(csv_file)] ==
            IF n = 0 THEN 0
            ELSE CHOOSE i \in keep : i > nth[n - 1] /\ \A j \in keep : j > nth[n - 1] => i <= j
    IN  [n \in 1..Cardinality(keep) |-> csv_file[nth[n]]]

\* C4: in add_bulk, once k >= 1 data rows have been visited (confirmed or
\* declined), the edit file holds exactly the rows of the input CSV, in their
\* order and with the header, whose column 0 is not the URL of one of the first
\* k data rows; this holds after each visited row, not only at the end.
C4_EditFileAfterEachRow ==
    Len(bulk_visited) >= 1 =>
        /\ edit_file.exists
        /\ edit_file.rows = RemainingAfter(Len(bulk_visited))

\* In the middle of the run, after one declined row, with rows left to visit
\* and a data row still in the edit file.
C4_Witness ==
    /\ bulk_pc = "loop"
    /\ Len(bulk_visited) = 1
    /\ ~bulk_visited[1].do_add
    /\ edit_file.exists
    /\ Len(edit_file.rows) = 2
    /\ Len(csv_file) = 3

RemoveCalls == {i \in 1..Len(t_calls) : t_calls[i].op = "remove"}

\* C5: in _test and _test_airbyte the external tool's remove(name, type) is
\* called exactly once on every exit path (success, a declined install test or
\* scrape, a failed install, a failed scrape, a replacement JSON that does not
\* parse), and it is the last external-tool call of the cycle.
C5_RemoveOnceAndLast ==
    IF t_pc = "done"
    THEN /\ RemoveCalls = {Len(t_calls)}
         /\ t_calls[Len(t_calls)].name = t_args.plugin_name
         /\ t_calls[Len(t_calls)].type = t_args.plugin_type
    ELSE RemoveCalls = {}

\* The cycle is over after a failed scrape and a replacement JSON that did not
\* parse.
C5_Witness ==
    /\ t_pc = "done"
    /\ "about" \in t_failed
    /\ "json" \in t_failed
    /\ Len(t_calls) >= 4
    /\ t_calls[Len(t_calls)].op = "remove"

\* C6: a failure of an external-tool step of the test cycle (install, basic
\* invocation test, about-document scrape, remove) does not leave the cycle:
\* the cycle returns no about-document and the add around it goes on with the
\* manual entry of settings, to the written definition.
C6_ToolFailureNeverPropagates ==
    (t_pc = "done" /\ t_failed \cap {"add", "help_test", "about", "remove"} # {}) =>
        /\ ~t_exc
        /\ t_return = None
        /\ add_pc \in {"testing", "manual", "written_manual"}

OverlaidFields == {"settings", "keywords", "maintenance_status", "capabilities",
                   "settings_group_validation"}

\* C7: _merge_definitions returns a definition whose settings, keywords,
\* maintenance_status, capabilities and settings_group_validation are the
\* values supplied and whose every other field is that of the existing
\* definition; no field but those five is added or removed; and the existing
\* definition passed in is not modified.
C7_MergeOverlaysFiveFields ==
    [][/\ \A f \in OverlaidFields :
             f \in DOMAIN new_def' /\ new_def'[f] = merge_args'[f]
       /\ DOMAIN new_def' = (DOMAIN existing_def) \cup OverlaidFields
       /\ \A f \in (DOMAIN existing_def) \ OverlaidFields :
             new_def'[f] = existing_def[f]
       /\ existing_def' = existing_def]_vars

\* A merge that changed the settings, added keywords the file did not have and
\* kept an executable the file had.
C7_Witness ==
    /\ merge_args # NoCall
    /\ "executable" \in DOMAIN new_def
    /\ "keywords" \notin DOMAIN existing_def
    /\ "keywords" \in DOMAIN new_def
    /\ new_def["settings"] # existing_def["settings"]
    /\ new_def["label"] = existing_def["label"]

\* s is the sequence of the names answered required = true, in input order.
IsRequiredNamesInOrder(s) ==
    LET req == {i \in 1..Len(setting_list) : bs_answers[i].required}
    IN  /\ Len(s) = Cardinality(req)
        /\ \E pos \in [1..Len(s) -> req] :
              /\ \A m, n \in 1..Len(s) : m < n => pos[m] < pos[n]
              /\ \A n \in 1..Len(s) : s[n] = setting_list[pos[n]]

\* C8: _build_settings returns one setting record per input name, in input
\* order; a record has a `kind` field exactly when the chosen kind is not
\* `string`; and settings_group_validation is one group holding, in input
\* order, the names of the settings answered required = true (one empty group
\* when there is none).
C8_BuildSettingsResult ==
    bs_return.returned =>
        /\ Len(bs_return.settings) = Len(setting_list)
        /\ \A i \in 1..Len(setting_list) :
              LET rec == bs_return.settings[i]
              IN  /\ rec.name = setting_list[i]
                  /\ ("kind" \in DOMAIN rec) = (bs_answers[i].kind # "string")
                  /\ "kind" \in DOMAIN rec => rec.kind = bs_answers[i].kind
        /\ Len(bs_return.settings_group_validation) = 1
        /\ IsRequiredNamesInOrder(bs_return.settings_group_validation[1])

\* Three settings returned: a required one of kind string, one not required
\* of another kind, and a different name required last.
C8_Witness ==
    /\ bs_return.returned
    /\ Len(setting_list) = 3
    /\ bs_answers[1].kind = "string" /\ bs_answers[1].required
    /\ bs_answers[2].kind = "integer" /\ ~bs_answers[2].required
    /\ bs_answers[3].required
    /\ setting_list[3] # setting_list[1]
    /\ Len(bs_return.settings_group_validation[1]) = 2

\* The list collected before the i-th submission of the current call.
CollectedBefore(i) ==
    LET n == Len(cs_submitted)
        appended == IF cs_pc = "returned" THEN n - 1 ELSE n
    IN  SubSeq(cs_settings, 1, Len(cs_settings) - appended + i - 1)

\* C9 as stated: the prompt loop of _compile_settings ends when, and only
\* when, the operator submits the same value twice in a row.
C9_EndsOnRepeatedValue ==
    (~auto_accept /\ cs_pc \in {"loop", "returned"}) =>
        ((cs_pc = "returned") =
            (/\ Len(cs_submitted) >= 2
             /\ cs_submitted[Len(cs_submitted)] = cs_submitted[Len(cs_submitted) - 1]))

\* C9, amended: outside auto-accept mode the prompt loop of _compile_settings
\* ends when, and only when, the value submitted has the string form of the
\* list collected so far (the operator accepts the default, which is that
\* list, or types its text); a value submitted twice in a row does not end
\* it.  Every value submitted before that is in the returned list, and the
\* returned list holds each distinct name exactly once.
C9_EndsOnDefaultAccepted ==
    (~auto_accept /\ cs_pc \in {"loop", "returned"}) =>
        LET n == Len(cs_submitted)
            last == IF cs_pc = "returned" THEN n - 1 ELSE n
        IN  /\ cs_pc = "returned" => n >= 1 /\ cs_submitted[n] = Str(cs_settings)
            /\ \A i \in 1..last :
                  /\ cs_submitted[i] # Str(CollectedBefore(i))
                  /\ cs_settings[Len(cs_settings) - last + i] = cs_submitted[i]
            /\ cs_pc = "returned" =>
                  /\ \A i \in 1..last : cs_submitted[i] \in Range(cs_return.list)
                  /\ Range(cs_return.list) = Range(cs_settings)
                  /\ \A i, j \in 1..Len(cs_return.list) :
                        cs_return.list[i] = cs_return.list[j] => i = j

\* The same name submitted twice in a row, then the default accepted: the
\* loop ended only then, and the returned list holds the name once.
C9_Witness ==
    /\ ~auto_accept
    /\ cs_pc = "returned"
    /\ Len(cs_submitted) = 3
    /\ cs_submitted[1] = cs_submitted[2]
    /\ cs_submitted[3] = Str(cs_settings)
    /\ Len(cs_return.list) = 1

\* The marker stands somewhere in the name.
HasMarker(marker, name) ==
    \E i \in 1..Len(name) :
        /\ i + Len(marker) - 1 <= Len(name)
        /\ \A j \in 1..Len(marker) : name[i + j - 1] = marker[j]

\* C10: get_plugin_type fails for a name containing both `tap-` and
\* `target-`; returns `extractors` for a name with `tap-` and without
\* `target-`; returns `loaders` for a name with `target-` and without `tap-`;
\* and gives no classification, and no error, for a name with neither.
C10_ClassifyPluginType ==
    type_result.called =>
        LET tap == HasMarker(TapMarker, plugin_name)
            target == HasMarker(TargetMarker, plugin_name)
        IN  /\ (tap /\ target) => type_result.raised
            /\ (tap /\ ~target) =>
                  ~type_result.raised /\ type_result.value = "extractors"
            /\ (target /\ ~tap) =>
                  ~type_result.raised /\ type_result.value = "loaders"
            /\ (~tap /\ ~target) =>
                  ~type_result.raised /\ type_result.value = None

\* A name with both markers, the extractor marker made of two pieces, and the
\* call that raised.
C10_Witness ==
    /\ type_result.called
    /\ type_result.raised
    /\ plugin_name = <<"t", "a", "p", "-", "t", "a", "r", "g", "e", "t", "-">>

\* The add just made was for a (type, name, variant) whose definition file and
\* default-variant entry were both there before it.
AddedExisting ==
    /\ add_call'.op = "add"
    /\ <<add_call'.type, add_call'.name, add_call'.variant>> \in DefKeys
    /\ files[<<add_call'.type, add_call'.name, add_call'.variant>>] # NoFile
    /\ add_call'.name \in DOMAIN defaults[add_call'.type]

C12_UnseededStartsEmpty ==
    cs_aliased =>
        /\ (cs_pc = "loop" /\ cs_submitted = <<>>) => cs_settings = <<>>
        /\ cs_pc = "returned" =>
              Range(cs_return.list) \subseteq Range(cs_submitted)

====
